---- MODULE Spec2Model ----
(***************************************************************************)
(* Model of the Instagram post-ownership verification component (App):    *)
(* the React state of the component, its handlers (URL input, the         *)
(* generateProof fetch, initializeReclaimProofRequest and the effect that *)
(* triggers it, startVerification with its popup and session callbacks,   *)
(* resetAll) and the pure helpers they use.                                *)
(*                                                                         *)
(* Strings the code inspects (URLs, media codes) are sequences of          *)
(* one-character strings.  A nullable value is Null (absent) or Some(v).   *)
(***************************************************************************)
EXTENDS Integers, Sequences, FiniteSets, TLC

VARIABLES
    proofData,            \* useState(null): zkFetch proof artifact
    isFetching,           \* useState(false)
    instagramUrl,         \* useState(""): the URL input
    username,             \* useState(null)
    isVerifying,          \* useState(false)
    verificationProof,    \* useState(null): proof array of the Reclaim session
    reclaimProofRequest,  \* useState(null): the session handle
    verificationError,    \* useState(null): the error slot
    fetches,              \* generateProof invocations suspended at an await
                          \* (stale: resetAll ran after the invocation began)
    inits,                \* initializeReclaimProofRequest invocations suspended at init
                          \* in the order of their calls (stale: as for
                          \* fetches; overtaken: an invocation called later
                          \* for another media code has stored its handle)
    attempts,             \* startVerification invocations and their popup windows
    userIdle,             \* the user has stopped using the controls
    proofs,               \* the argument of extractPostData applied on its own
    postData,             \* what that application returned
    rawUrl,               \* the argument of normalizeInstagramUrl and of
                          \* extractMediaCode applied on their own
    normalizedUrl,        \* normalizeInstagramUrl(rawUrl), once applied
    normalizedTwice,      \* normalizeInstagramUrl of normalizedUrl, once applied
    matchedCode           \* extractMediaCode(rawUrl), once applied

appVars == <<proofData, isFetching, instagramUrl, username, isVerifying,
             verificationProof, reclaimProofRequest, verificationError,
             fetches, inits, attempts, userIdle>>

\* the variables of the helpers that are applied on their own
urlVars == <<rawUrl, normalizedUrl, normalizedTwice, matchedCode>>
helperVars == <<proofs, postData, urlVars>>

vars == <<appVars, helperVars>>

----------------------------------------------------------------------------
\* Bounds of the model

\* startVerification invocations whose popup still exists, at one time
MaxAttempts == 2
\* initializeReclaimProofRequest invocations pending at one time
MaxInits == 2
\* generateProof invocations in flight at one time
MaxFetches == 2

----------------------------------------------------------------------------
\* Nullable values

Null == << >>
Some(v) == <<v>>
Val(o) == o[1]

----------------------------------------------------------------------------
\* Strings as sequences of characters

Letters == {"A","B","C","D","E","F","G","H","I","J","K","L","M",
            "N","O","P","Q","R","S","T","U","V","W","X","Y","Z",
            "a","b","c","d","e","f","g","h","i","j","k","l","m",
            "n","o","p","q","r","s","t","u","v","w","x","y","z"}
Digits == {"0","1","2","3","4","5","6","7","8","9"}
\* the character class [A-Za-z0-9_-]
CodeChars == Letters \cup Digits \cup {"_", "-"}
Whitespace == {" ", "\t", "\n"}

\* s has the string t at index i
HasAt(s, t, i) ==
    /\ i >= 1
    /\ i + Len(t) - 1 <= Len(s)
    /\ SubSeq(s, i, i + Len(t) - 1) = t

\* String.prototype.includes
Includes(s, t) == \E i \in 1..(Len(s) + 1) : HasAt(s, t, i)

\* String.prototype.endsWith
EndsWith(s, t) == Len(t) <= Len(s) /\ HasAt(s, t, Len(s) - Len(t) + 1)

\* String.prototype.trim
Trim(s) ==
    LET keep == {i \in 1..Len(s) : s[i] \notin Whitespace} IN
    IF keep = {} THEN << >>
    ELSE LET lo == CHOOSE i \in keep : \A j \in keep : i <= j
             hi == CHOOSE i \in keep : \A j \in keep : i >= j
         IN SubSeq(s, lo, hi)

\* the end of the maximal run of code characters of s starting at index i
\* (i - 1 when s[i] is no code character)
RunEnd(s, i) ==
    LET stops == {j \in i..(Len(s) + 1) : j = Len(s) + 1 \/ s[j] \notin CodeChars}
    IN (CHOOSE j \in stops : \A k \in stops : j <= k) - 1

HostLit == <<"i","n","s","t","a","g","r","a","m",".","c","o","m","/">>
PLit == <<"p","/">>
ReelLit == <<"r","e","e","l","/">>

\* where the capture group of /instagram\.com\/(?:p|reel)\/([A-Za-z0-9_-]+)/
\* starts when the pattern matches s at index i, 0 when it does not match there
GroupStart(s, i) ==
    LET j == i + Len(HostLit) IN
    IF ~HasAt(s, HostLit, i) THEN 0
    ELSE IF HasAt(s, PLit, j) /\ RunEnd(s, j + Len(PLit)) >= j + Len(PLit)
         THEN j + Len(PLit)
    ELSE IF HasAt(s, ReelLit, j) /\ RunEnd(s, j + Len(ReelLit)) >= j + Len(ReelLit)
         THEN j + Len(ReelLit)
    ELSE 0

\* (variant: the pattern lacks the reel alternative)
C23m_extractMediaCode(url) ==
    LET starts == {i \in 1..Len(url) :
                      /\ HasAt(url, HostLit \o PLit, i)
                      /\ RunEnd(url, i + Len(HostLit \o PLit)) >= i + Len(HostLit \o PLit)}
    IN IF starts = {} THEN Null
       ELSE LET i == CHOOSE h \in starts : \A k \in starts : h <= k
                g == i + Len(HostLit \o PLit)
            IN Some(SubSeq(url, g, RunEnd(url, g)))

extractMediaCode(url) ==
    LET hits == {i \in 1..Len(url) : GroupStart(url, i) > 0} IN
    IF hits = {} THEN Null
    ELSE LET i == CHOOSE h \in hits : \A k \in hits : h <= k
             g == GroupStart(url, i)
         IN Some(SubSeq(url, g, RunEnd(url, g)))

EmbedLit == <<"/","e","m","b","e","d">>
Slash == <<"/">>

normalizeInstagramUrl(url) ==
    LET trimmed == Trim(url)
        cut == IF EndsWith(trimmed, Slash)
               THEN SubSeq(trimmed, 1, Len(trimmed) - 1)
               ELSE trimmed
    IN IF ~Includes(cut, EmbedLit) THEN cut \o EmbedLit \o Slash
       ELSE IF ~EndsWith(cut, Slash) THEN cut \o Slash
       ELSE cut

----------------------------------------------------------------------------
\* The inputs of the model

EmptyUrl == << >>
UrlPost == HostLit \o <<"p","/","A","1","/">>
UrlReel == HostLit \o <<"r","e","e","l","/","B","_","2">>
Urls == {EmptyUrl, UrlPost, UrlReel}

\* what the username pattern may extract from the fetched page (Null: no match)
FetchedNames == {Null, Some("alice")}

\* error.message of the error handed to onError
CallbackMessages == {"denied", "expired"}

ErrNoMediaCode == "Could not extract media code from URL."
ErrInitFailed == "Failed to initialize verification. Please try again."
ErrNotInitialized == "Verification not initialized. Please refresh the page."
ErrPopupBlocked == "Popup was blocked. Please allow popups for this site and try again."
ErrPopupClosed == "Popup window was closed before loading. Please try again."
ErrInvalidProof == "Received invalid proof response."
ErrStartFailed == "Failed to start verification. Please try again."
ErrCallback(m) ==
    IF m = "denied" THEN "Verification error: denied" ELSE "Verification error: expired"



RemoveAt(s, k) == SubSeq(s, 1, k - 1) \o SubSeq(s, k + 1, Len(s))

----------------------------------------------------------------------------
\* Initial state: the useState initial values, nothing in flight

\* a slot of attempts: where the invocation stands (pc), its popup (win), the
\* media_code of the handle it captured, the calls it has made in order (log)
\* and the state its popup was in when it was navigated (nav)
FreeSlot == [pc |-> "free", win |-> "none", media_code |-> << >>, log |-> << >>,
             nav |-> "none"]

AppInit ==
    /\ proofData = Null
    /\ isFetching = FALSE
    /\ instagramUrl = EmptyUrl
    /\ username = Null
    /\ isVerifying = FALSE
    /\ verificationProof = Null
    /\ reclaimProofRequest = Null
    /\ verificationError = Null
    /\ fetches = << >>
    /\ inits = << >>
    /\ attempts = [a \in 1..MaxAttempts |-> FreeSlot]
    /\ userIdle = FALSE

\* no helper has been applied on its own
UrlIdle ==
    /\ rawUrl = << >>
    /\ normalizedUrl = Null
    /\ normalizedTwice = Null
    /\ matchedCode = Null

Init ==
    /\ AppInit
    /\ proofs = << >>
    /\ postData = Null
    /\ UrlIdle

----------------------------------------------------------------------------
\* initializeReclaimProofRequest and the effect that calls it

\* The synchronous part of initializeReclaimProofRequest for the URL of the
\* render that created the callback: without a media code it sets the error
\* and returns, otherwise it suspends at ReclaimProofRequest.init.
\* err is the error slot as the handler that caused the render left it.
initializeReclaimProofRequest(url, err) ==
    LET mediaCode == extractMediaCode(url) IN
    IF mediaCode = Null
    THEN /\ verificationError' = Some(ErrNoMediaCode)
         /\ inits' = inits
    ELSE /\ verificationError' = err
         /\ inits' = Append(inits, [media_code |-> Val(mediaCode), stale |-> FALSE,
                                 overtaken |-> FALSE])

\* useEffect(..., [username, initializeReclaimProofRequest]): the effect runs
\* after a render in which username or the callback (that is, instagramUrl)
\* changed, and calls the callback when username is set
EffectCalls(newUsername, newUrl) ==
    /\ newUsername # Null
    /\ (newUsername # username \/ newUrl # instagramUrl)

UseEffect(newUsername, newUrl, err) ==
    IF EffectCalls(newUsername, newUrl)
    THEN initializeReclaimProofRequest(newUrl, err)
    ELSE /\ verificationError' = err
         /\ inits' = inits

\* the model holds at most MaxInits suspended initializations
EffectFits(newUsername, newUrl) ==
    (EffectCalls(newUsername, newUrl) /\ extractMediaCode(newUrl) # Null)
        => Len(inits) < MaxInits

\* ReclaimProofRequest.init resolves or rejects, or setParams throws
InitOutcomes == {"resolved", "rejected", "setParamsThrows"}

\* the continuation of the k-th suspended invocation
InitSettles(k, r) ==
    /\ UNCHANGED <<helperVars, userIdle>>
    /\ k \in 1..Len(inits)
    /\ IF r = "resolved"
       THEN /\ reclaimProofRequest' = Some([media_code |-> inits[k].media_code])
            /\ verificationError' = verificationError
       ELSE /\ verificationError' = Some(ErrInitFailed)
            /\ reclaimProofRequest' = reclaimProofRequest
    /\ UNCHANGED <<proofData, isFetching, instagramUrl, username, isVerifying,
                   verificationProof, fetches, attempts>>

InitReturns(k, r) ==
    /\ InitSettles(k, r)
    /\ inits' = RemoveAt(inits, k)

\* the invocations suspended in s other than the k-th, those called before
\* it marked as overtaken when it stores its handle
Overtake(s, k, r) ==
    RemoveAt([j \in 1..Len(s) |->
                 IF r = "resolved" /\ j < k THEN [s[j] EXCEPT !.overtaken = TRUE]
                 ELSE s[j]], k)

\* InitReturns, with the invocations it overtakes marked
InitReturnsTracked(k, r) ==
    /\ InitSettles(k, r)
    /\ inits' = Overtake(inits, k, r)

----------------------------------------------------------------------------
\* The URL input

SetUrl(u) ==
    /\ UNCHANGED <<helperVars, userIdle>>
    /\ u # instagramUrl
    /\ EffectFits(username, u)
    /\ instagramUrl' = u
    /\ UseEffect(username, u, verificationError)
    /\ UNCHANGED <<proofData, isFetching, username, isVerifying, verificationProof,
                   reclaimProofRequest, fetches, attempts>>

----------------------------------------------------------------------------
\* generateProof

\* the "Get Post Owner" button is enabled
\* (variant: the button is not disabled while a fetch is in flight)
C17m_CanGetPostOwner == instagramUrl # EmptyUrl

CanGetPostOwner == ~(isFetching \/ instagramUrl = EmptyUrl)

\* generateProof up to its first await
generateProof ==
    IF instagramUrl = EmptyUrl
    THEN UNCHANGED <<isFetching, username, fetches>>
    ELSE /\ isFetching' = TRUE
         /\ username' = Null
         /\ fetches' = Append(fetches, [pc |-> "sign", token |-> Null, stale |-> FALSE])

ClickGetPostOwner ==
    /\ UNCHANGED <<helperVars, userIdle>>
    /\ CanGetPostOwner
    /\ Len(fetches) < MaxFetches
    /\ generateProof
    /\ UseEffect(username', instagramUrl, verificationError)
    /\ UNCHANGED <<proofData, instagramUrl, isVerifying, verificationProof,
                   reclaimProofRequest, attempts>>

\* fetch(`${API_URL}/sign`) and getToken.json(): the request rejects, or the
\* endpoint answers 200 {token} or 500 {error, message}; with the 500 body
\* tokenData.token is undefined and new ReclaimClient(appId, undefined)
\* either throws or builds a client
SignOutcomes == {"rejected", "token", "noTokenClientThrows", "noTokenClientBuilt"}

SignReturns(i, r) ==
    /\ UNCHANGED <<helperVars, userIdle>>
    /\ i \in 1..Len(fetches)
    /\ fetches[i].pc = "sign"
    /\ IF r \in {"rejected", "noTokenClientThrows"}
       THEN /\ isFetching' = FALSE
            /\ fetches' = RemoveAt(fetches, i)
       ELSE /\ isFetching' = isFetching
            /\ fetches' = [fetches EXCEPT ![i] =
                   [@ EXCEPT !.pc = "zkFetch",
                             !.token = IF r = "token" THEN Some("token") ELSE Null]]
    /\ UNCHANGED <<proofData, instagramUrl, username, isVerifying, verificationProof,
                   reclaimProofRequest, verificationError, inits, attempts>>

\* reclaim.zkFetch rejects
\* (variant: the catch block does not lower the fetching flag)
C14m_ZkFetchRejects(i) ==
    /\ UNCHANGED <<helperVars, userIdle>>
    /\ i \in 1..Len(fetches)
    /\ fetches[i].pc = "zkFetch"
    /\ fetches' = RemoveAt(fetches, i)
    /\ UNCHANGED <<proofData, isFetching, instagramUrl, username, isVerifying,
                   verificationProof, reclaimProofRequest, verificationError, inits,
                   attempts>>

ZkFetchRejects(i) ==
    /\ UNCHANGED <<helperVars, userIdle>>
    /\ i \in 1..Len(fetches)
    /\ fetches[i].pc = "zkFetch"
    /\ isFetching' = FALSE
    /\ fetches' = RemoveAt(fetches, i)
    /\ UNCHANGED <<proofData, instagramUrl, username, isVerifying, verificationProof,
                   reclaimProofRequest, verificationError, inits, attempts>>

\* reclaim.zkFetch resolves with data whose extractedParameterValues.username is name
ZkFetchResolves(i, name) ==
    /\ UNCHANGED <<helperVars, userIdle>>
    /\ i \in 1..Len(fetches)
    /\ fetches[i].pc = "zkFetch"
    /\ LET newUsername == IF name # Null THEN name ELSE username IN
       /\ EffectFits(newUsername, instagramUrl)
       /\ proofData' = Some([username |-> name])
       /\ username' = newUsername
       /\ UseEffect(newUsername, instagramUrl, verificationError)
    /\ isFetching' = FALSE
    /\ fetches' = RemoveAt(fetches, i)
    /\ UNCHANGED <<instagramUrl, isVerifying, verificationProof, reclaimProofRequest,
                   attempts>>

----------------------------------------------------------------------------
\* resetAll

\* the "Verify Another Post" button is rendered (inside the verified embed)
CanReset == verificationProof # Null /\ Len(Val(verificationProof)) > 0

resetAll ==
    /\ proofData' = Null
    /\ username' = Null
    /\ verificationProof' = Null
    /\ reclaimProofRequest' = Null
    /\ instagramUrl' = EmptyUrl
    /\ verificationError' = Null

\* the invocations suspended in s, marked as begun before a resetAll
MarkStale(s) == [k \in 1..Len(s) |-> [s[k] EXCEPT !.stale = TRUE]]

ClickReset ==
    /\ UNCHANGED <<helperVars, userIdle>>
    /\ CanReset
    /\ resetAll
    /\ UNCHANGED <<isFetching, isVerifying, fetches, inits, attempts>>

\* ClickReset, with the invocations still suspended marked
ClickResetTracked ==
    /\ UNCHANGED <<helperVars, userIdle>>
    /\ CanReset
    /\ resetAll
    /\ fetches' = MarkStale(fetches)
    /\ inits' = MarkStale(inits)
    /\ UNCHANGED <<isFetching, isVerifying, attempts>>


----------------------------------------------------------------------------
\* startVerification

\* what the collaborator may hand to onSuccess: nothing, a string, one proof
\* object, or an array of proof objects (of the session's media code)
ProofObject(media_code, n) == [media_code |-> media_code, n |-> n]

PayloadShapes == {"undefined", "string", "object", "emptyArray", "array"}

Payload(shape, media_code) ==
    IF shape = "undefined" THEN [kind |-> "undefined", value |-> << >>]
    ELSE IF shape = "string" THEN [kind |-> "string", value |-> <<"o", "k">>]
    ELSE IF shape = "object" THEN [kind |-> "object", value |-> ProofObject(media_code, 1)]
    ELSE IF shape = "emptyArray" THEN [kind |-> "array", value |-> << >>]
    ELSE [kind |-> "array", value |-> <<ProofObject(media_code, 1),
                                        ProofObject(media_code, 2)>>]

\* what window.open may do: return null, a window that is already closed or
\* an open window, or throw
OpenOutcomes == {"null", "closed", "open", "throws"}

FreeSlots == {a \in 1..MaxAttempts : attempts[a].pc = "free"}
FirstFreeSlot == CHOOSE a \in FreeSlots : \A b \in FreeSlots : a <= b

\* a finished invocation keeps its slot only while its popup is open
Settle(rec) ==
    IF rec.pc = "done" /\ rec.win # "open" THEN FreeSlot
    ELSE IF rec.pc = "done" THEN [FreeSlot EXCEPT !.pc = "done", !.win = "open"]
    ELSE rec

\* the Verify Ownership button is rendered and enabled
\* (variant: the card with the button is rendered without a username)
C16m_CanVerify ==
    /\ ~isFetching /\ verificationProof = Null
    /\ ~(isVerifying \/ reclaimProofRequest = Null)

CanVerify ==
    /\ username # Null /\ ~isFetching /\ verificationProof = Null
    /\ ~(isVerifying \/ reclaimProofRequest = Null)

\* the guard of startVerification: without a handle it sets the error and returns
\* (variant: the verifying flag is raised before the guard)
C8m_NotInitialized ==
    /\ verificationError' = Some(ErrNotInitialized)
    /\ isVerifying' = TRUE
    /\ UNCHANGED attempts

NotInitialized ==
    /\ verificationError' = Some(ErrNotInitialized)
    /\ UNCHANGED <<isVerifying, attempts>>

\* !proofWindow || proofWindow.closed, for what window.open returned
\* (variant: only !proofWindow)
C2m_PopupBlocked(w) == w = "null"

PopupBlocked(w) == w = "null" \/ w = "closed"

\* the calls startVerification makes up to its first await, in order
\* (variant: the URL is requested before the popup is opened)
C1m_CallsToFirstAwait == <<"getRequestUrl", "window.open">>

CallsToFirstAwait == <<"window.open", "getRequestUrl">>

\* startVerification up to its first await, window.open doing w
startVerification(w) ==
    IF reclaimProofRequest = Null
    THEN NotInitialized
    ELSE IF w = "throws"
    THEN /\ isVerifying' = FALSE
         /\ verificationError' = Some(ErrStartFailed)
         /\ UNCHANGED attempts
    ELSE IF PopupBlocked(w)
    THEN /\ isVerifying' = FALSE
         /\ verificationError' = Some(ErrPopupBlocked)
         /\ UNCHANGED attempts
    ELSE /\ FreeSlots # {}
         /\ isVerifying' = TRUE
         /\ verificationError' = Null
         /\ attempts' = [attempts EXCEPT ![FirstFreeSlot] =
                [pc |-> "getRequestUrl", win |-> IF w = "open" THEN "open" ELSE "closed",
                 media_code |-> Val(reclaimProofRequest).media_code,
                 log |-> CallsToFirstAwait, nav |-> "none"]]

ClickVerify(w) ==
    /\ UNCHANGED <<helperVars, userIdle>>
    /\ CanVerify
    /\ startVerification(w)
    /\ UNCHANGED <<proofData, isFetching, instagramUrl, username, verificationProof,
                   reclaimProofRequest, fetches, inits>>

\* the catch block of startVerification: an open popup is closed
CatchStart(a) ==
    /\ isVerifying' = FALSE
    /\ verificationError' = Some(ErrStartFailed)
    /\ attempts' = [attempts EXCEPT ![a] = Settle([@ EXCEPT !.pc = "done",
                                                             !.win = "closed"])]

\* the popup is navigated and startSession is called
NavigateAndListen(a) ==
    /\ attempts' = [attempts EXCEPT ![a] =
           [@ EXCEPT !.pc = "startSession",
                     !.log = @ \o <<"urlReturned", "navigate", "startSession">>,
                     !.nav = attempts[a].win]]
    /\ UNCHANGED <<isVerifying, verificationError>>

\* (variant of AfterRequestUrl: the popup is not re-checked)
C3m_AfterRequestUrl(a, nav) ==
    IF nav = "throws" THEN CatchStart(a) ELSE NavigateAndListen(a)

\* getRequestUrl resolved: the re-check of the popup, the navigation (which
\* succeeds or throws) and the call of startSession
AfterRequestUrl(a, nav) ==
    IF attempts[a].win # "open"
    THEN /\ isVerifying' = FALSE
         /\ verificationError' = Some(ErrPopupClosed)
         /\ attempts' = [attempts EXCEPT ![a] = Settle([@ EXCEPT !.pc = "done"])]
    ELSE IF nav = "throws"
    THEN CatchStart(a)
    ELSE NavigateAndListen(a)

RequestUrlReturns(a, r, nav) ==
    /\ UNCHANGED <<helperVars, userIdle>>
    /\ attempts[a].pc = "getRequestUrl"
    /\ IF r = "rejected" THEN CatchStart(a) ELSE AfterRequestUrl(a, nav)
    /\ UNCHANGED <<proofData, isFetching, instagramUrl, username, verificationProof,
                   reclaimProofRequest, fetches, inits>>

\* startSession resolves (the collaborator listens) or rejects
StartSessionReturns(a, r) ==
    /\ UNCHANGED <<helperVars, userIdle>>
    /\ attempts[a].pc = "startSession"
    /\ IF r = "rejected"
       THEN CatchStart(a)
       ELSE /\ attempts' = [attempts EXCEPT ![a].pc = "listening"]
            /\ UNCHANGED <<isVerifying, verificationError>>
    /\ UNCHANGED <<proofData, isFetching, instagramUrl, username, verificationProof,
                   reclaimProofRequest, fetches, inits>>

\* (variant of IsProof: only the truthiness test)
C4m_IsProof(proof) ==
    ~(proof.kind = "undefined" \/ (proof.kind = "string" /\ proof.value = << >>))

\* proof && typeof proof !== "string"
IsProof(proof) ==
    /\ ~(proof.kind = "undefined" \/ (proof.kind = "string" /\ proof.value = << >>))
    /\ proof.kind # "string"

\* the onSuccess callback
onSuccess(proof) ==
    /\ isVerifying' = FALSE
    /\ IF IsProof(proof)
       THEN /\ verificationProof' =
                   Some(IF proof.kind = "array" THEN proof.value ELSE <<proof.value>>)
            /\ UNCHANGED verificationError
       ELSE /\ verificationError' = Some(ErrInvalidProof)
            /\ UNCHANGED verificationProof

\* the collaborator calls onSuccess of the invocation in slot a
SessionSucceeds(a, shape) ==
    /\ UNCHANGED <<helperVars, userIdle>>
    /\ attempts[a].pc = "listening"
    /\ onSuccess(Payload(shape, attempts[a].media_code))
    /\ attempts' = [attempts EXCEPT ![a] = Settle([@ EXCEPT !.pc = "done"])]
    /\ UNCHANGED <<proofData, isFetching, instagramUrl, username, reclaimProofRequest,
                   fetches, inits>>

\* (variant of onError: the popup is left as it is)
C6m_onError(a, m) ==
    /\ isVerifying' = FALSE
    /\ verificationError' = Some(ErrCallback(m))
    /\ attempts' = [attempts EXCEPT ![a] = Settle([@ EXCEPT !.pc = "done"])]

\* the onError callback of the invocation in slot a, with error.message m
onError(a, m) ==
    /\ isVerifying' = FALSE
    /\ verificationError' = Some(ErrCallback(m))
    /\ attempts' = [attempts EXCEPT ![a] =
           Settle([@ EXCEPT !.pc = "done",
                            !.win = IF @ = "open" THEN "closed" ELSE @])]

SessionFails(a, m) ==
    /\ UNCHANGED <<helperVars, userIdle>>
    /\ attempts[a].pc = "listening"
    /\ onError(a, m)
    /\ UNCHANGED <<proofData, isFetching, instagramUrl, username, verificationProof,
                   reclaimProofRequest, fetches, inits>>

\* the user (or the page shown in it) closes a popup
PopupCloses(a) ==
    /\ UNCHANGED <<helperVars, userIdle>>
    /\ attempts[a].win = "open"
    /\ attempts' = [attempts EXCEPT ![a] = Settle([@ EXCEPT !.win = "closed"])]
    /\ UNCHANGED <<proofData, isFetching, instagramUrl, username, isVerifying,
                   verificationProof, reclaimProofRequest, verificationError,
                   fetches, inits>>

----------------------------------------------------------------------------
\* The component driven through its rendered controls

Next ==
    \/ \E u \in Urls : SetUrl(u)
    \/ ClickGetPostOwner
    \/ \E i \in 1..MaxFetches, r \in SignOutcomes : SignReturns(i, r)
    \/ \E i \in 1..MaxFetches : ZkFetchRejects(i)
    \/ \E i \in 1..MaxFetches, name \in FetchedNames : ZkFetchResolves(i, name)
    \/ \E k \in 1..MaxInits, r \in InitOutcomes : InitReturns(k, r)
    \/ \E w \in OpenOutcomes : ClickVerify(w)
    \/ \E a \in 1..MaxAttempts, r \in {"resolved", "rejected"}, nav \in {"ok", "throws"} :
           RequestUrlReturns(a, r, nav)
    \/ \E a \in 1..MaxAttempts, r \in {"resolved", "rejected"} : StartSessionReturns(a, r)
    \/ \E a \in 1..MaxAttempts, shape \in PayloadShapes : SessionSucceeds(a, shape)
    \/ \E a \in 1..MaxAttempts, m \in CallbackMessages : SessionFails(a, m)
    \/ \E a \in 1..MaxAttempts : PopupCloses(a)
    \/ ClickReset

Spec == Init /\ [][Next]_vars

\* The same component, with the suspended invocations marked as stale and
\* overtaken
NextTracked ==
    \/ \E u \in Urls : SetUrl(u)
    \/ ClickGetPostOwner
    \/ \E i \in 1..MaxFetches, r \in SignOutcomes : SignReturns(i, r)
    \/ \E i \in 1..MaxFetches : ZkFetchRejects(i)
    \/ \E i \in 1..MaxFetches, name \in FetchedNames : ZkFetchResolves(i, name)
    \/ \E k \in 1..MaxInits, r \in InitOutcomes : InitReturnsTracked(k, r)
    \/ \E w \in OpenOutcomes : ClickVerify(w)
    \/ \E a \in 1..MaxAttempts, r \in {"resolved", "rejected"}, nav \in {"ok", "throws"} :
           RequestUrlReturns(a, r, nav)
    \/ \E a \in 1..MaxAttempts, r \in {"resolved", "rejected"} : StartSessionReturns(a, r)
    \/ \E a \in 1..MaxAttempts, shape \in PayloadShapes : SessionSucceeds(a, shape)
    \/ \E a \in 1..MaxAttempts, m \in CallbackMessages : SessionFails(a, m)
    \/ \E a \in 1..MaxAttempts : PopupCloses(a)
    \/ ClickResetTracked

SpecTracked == Init /\ [][NextTracked]_vars

\* The component with collaborators that answer without error and a user
\* who may stop using the controls for good
UserStops ==
    /\ ~userIdle
    /\ userIdle' = TRUE
    /\ UNCHANGED <<proofData, isFetching, instagramUrl, username, isVerifying,
                   verificationProof, reclaimProofRequest, verificationError,
                   fetches, inits, attempts, helperVars>>

UserActs ==
    /\ ~userIdle
    /\ \/ \E u \in Urls : SetUrl(u)
       \/ ClickGetPostOwner
       \/ ClickVerify("open")
       \/ ClickReset

\* generateProof gets its token and zkFetch answers
FetchProceeds ==
    \E i \in 1..MaxFetches :
        \/ SignReturns(i, "token")
        \/ \E name \in FetchedNames : ZkFetchResolves(i, name)

\* ReclaimProofRequest.init resolves
InitResolves == \E k \in 1..MaxInits : InitReturns(k, "resolved")

SessionProceeds ==
    \E a \in 1..MaxAttempts :
        \/ RequestUrlReturns(a, "resolved", "ok")
        \/ StartSessionReturns(a, "resolved")
        \/ SessionSucceeds(a, "object")

NextLive ==
    \/ UserActs
    \/ UserStops
    \/ FetchProceeds
    \/ InitResolves
    \/ SessionProceeds

\* the promises of fetch, zkFetch and ReclaimProofRequest.init settle, and
\* a session that was started goes on to its success callback
SpecLive ==
    /\ Init
    /\ [][NextLive]_vars
    /\ WF_vars(FetchProceeds)
    /\ WF_vars(InitResolves)
    /\ WF_vars(SessionProceeds)

\* startVerification is also called while no handle is stored: the call its
\* first guard is written for (the rendered button is disabled then)
CallStartVerification(w) ==
    /\ UNCHANGED <<helperVars, userIdle>>
    /\ reclaimProofRequest = Null
    /\ startVerification(w)
    /\ UNCHANGED <<proofData, isFetching, instagramUrl, username, verificationProof,
                   reclaimProofRequest, fetches, inits>>

NextHandlers ==
    \/ Next
    \/ \E w \in OpenOutcomes : CallStartVerification(w)

SpecHandlers == Init /\ [][NextHandlers]_vars

TypeOK ==
    /\ isFetching \in BOOLEAN
    /\ isVerifying \in BOOLEAN
    /\ instagramUrl \in Urls
    /\ username \in FetchedNames
    /\ Len(fetches) <= MaxFetches
    /\ Len(inits) <= MaxInits


----------------------------------------------------------------------------
\* The states of the verification stage, read off the flags of the component

FlowState ==
    IF verificationProof # Null THEN "SUCCEEDED"
    ELSE IF verificationError # Null THEN "FAILED"
    ELSE IF isVerifying THEN "VERIFYING"
    ELSE IF reclaimProofRequest # Null THEN "READY"
    ELSE IF inits # << >> THEN "INITIALIZING"
    ELSE "UNINITIALIZED"

Slots == 1..MaxAttempts

\* invocations of startVerification that are suspended or listening
Active == {a \in Slots : attempts[a].pc \in {"getRequestUrl", "startSession", "listening"}}
ActiveNext == {a \in Slots : attempts'[a].pc \in {"getRequestUrl", "startSession", "listening"}}

OpenPopups == {a \in Slots : attempts[a].win = "open"}

IsPrefix(s, t) == Len(s) <= Len(t) /\ s = SubSeq(t, 1, Len(s))

----------------------------------------------------------------------------
\* C1: every startVerification invocation past the not-initialized guard
\* makes its calls in the order window.open, getRequestUrl, (the URL
\* returns), navigation, startSession, and a popup that was navigated was
\* open when it was navigated.
VerificationCallOrder ==
    <<"window.open", "getRequestUrl", "urlReturned", "navigate", "startSession">>

C1_PopupThenUrlThenNavigate ==
    \A a \in Slots :
        /\ IsPrefix(attempts[a].log, VerificationCallOrder)
        /\ attempts[a].nav \in {"none", "open"}
        /\ attempts[a].pc \in {"startSession", "listening"}
               => attempts[a].log = VerificationCallOrder /\ attempts[a].nav = "open"
        /\ attempts[a].pc = "getRequestUrl"
               => attempts[a].log = SubSeq(VerificationCallOrder, 1, 2)

C1_Witness ==
    \E a \in Slots :
        /\ attempts[a].pc = "listening"
        /\ attempts[a].log = VerificationCallOrder
        /\ attempts[a].nav = "open"

\* C2: when window.open returns no handle or a closed one, the flow is FAILED
\* with the popup-blocked message, the verifying flag is false, and no
\* invocation is left that requests the URL or registers the session.
C2_PopupBlockedEndsAttempt ==
    [][\A w \in {"null", "closed"} :
          ClickVerify(w) =>
              /\ isVerifying' = FALSE
              /\ verificationError' = Some(ErrPopupBlocked)
              /\ verificationProof' = Null
              /\ ActiveNext = {}]_vars

C2_Witness ==
    /\ verificationError = Some(ErrPopupBlocked)
    /\ ~isVerifying
    /\ Active = {}
    /\ reclaimProofRequest # Null

\* C3: when getRequestUrl resolves after the popup was closed, the flow is
\* FAILED with the closed-before-loading message, the verifying flag is
\* false, the popup is not navigated and startSession is not called.
C3_ClosedWhileUrlPending ==
    [][\A a \in Slots, nav \in {"ok", "throws"} :
          (RequestUrlReturns(a, "resolved", nav) /\ attempts[a].win = "closed") =>
              /\ isVerifying' = FALSE
              /\ verificationError' = Some(ErrPopupClosed)
              /\ attempts'[a] = FreeSlot
              /\ ActiveNext = {}]_vars

C3_Witness ==
    /\ verificationError = Some(ErrPopupClosed)
    /\ ~isVerifying
    /\ Active = {}

\* C4: onSuccess with no payload or a string ends in FAILED with the
\* invalid-proof message and no proof set stored; with one proof object the
\* proof set is the one-element sequence of it; with a sequence it is that
\* sequence.
C4_SuccessPayload ==
    [][\A a \in Slots, shape \in PayloadShapes :
          SessionSucceeds(a, shape) =>
              LET proof == Payload(shape, attempts[a].media_code) IN
              /\ isVerifying' = FALSE
              /\ shape \in {"undefined", "string"} =>
                     /\ verificationError' = Some(ErrInvalidProof)
                     /\ verificationProof' = Null
              /\ shape = "object" => verificationProof' = Some(<<proof.value>>)
              /\ shape \in {"emptyArray", "array"} =>
                     verificationProof' = Some(proof.value)]_vars

C4_Witness ==
    /\ verificationError = Some(ErrInvalidProof)
    /\ verificationProof = Null
    /\ ~isVerifying
    /\ Active = {}

\* C5: a stored proof set is a non-empty sequence.
C5_ProofSetNonEmpty ==
    verificationProof # Null => Len(Val(verificationProof)) > 0

\* C6: onError ends in FAILED: the verifying flag is false, the error slot
\* holds the message of the callback, the proof set is as it was, and the
\* popup of that invocation is not open afterwards.
C6_ErrorCallback ==
    [][\A a \in Slots, m \in CallbackMessages :
          SessionFails(a, m) =>
              /\ isVerifying' = FALSE
              /\ verificationError' = Some(ErrCallback(m))
              /\ verificationProof' = verificationProof
              /\ verificationProof' = Null
              /\ attempts'[a].win # "open"]_vars

C6_Witness ==
    /\ verificationError = Some(ErrCallback("expired"))
    /\ ~isVerifying
    /\ verificationProof = Null
    /\ OpenPopups = {}

\* C7: a failure of session initialization (init rejects, setParams throws)
\* or of the start-verification sequence (window.open, getRequestUrl, the
\* navigation or startSession throws) leaves an error message in the error
\* slot, the verifying flag false and the popup of that invocation not open.
C7_FailureEndsFailed ==
    [][/\ \A k \in 1..MaxInits, r \in {"rejected", "setParamsThrows"} :
             InitReturns(k, r) =>
                 verificationError' # Null /\ isVerifying' = FALSE
       /\ ClickVerify("throws") =>
             verificationError' # Null /\ isVerifying' = FALSE
       /\ \A a \in Slots :
             (\/ RequestUrlReturns(a, "rejected", "ok")
              \/ (RequestUrlReturns(a, "resolved", "throws") /\ attempts[a].win = "open")
              \/ StartSessionReturns(a, "rejected")) =>
                 /\ verificationError' # Null
                 /\ isVerifying' = FALSE
                 /\ attempts'[a].win # "open"]_vars

\* C8: startVerification invoked in a state other than READY sets the
\* not-initialized error and changes nothing else.
C8_NoOpUnlessReady ==
    [][\A w \in OpenOutcomes :
          ((ClickVerify(w) \/ CallStartVerification(w)) /\ FlowState # "READY") =>
              /\ verificationError' = Some(ErrNotInitialized)
              /\ UNCHANGED <<proofData, isFetching, instagramUrl, username, isVerifying,
                             verificationProof, reclaimProofRequest, fetches, inits,
                             attempts>>]_vars

\* C8 as amended: startVerification invoked while no session handle is stored
\* sets the not-initialized error and changes nothing else.
C8_NoOpWithoutHandle ==
    [][\A w \in OpenOutcomes :
          ((ClickVerify(w) \/ CallStartVerification(w)) /\ reclaimProofRequest = Null) =>
              /\ verificationError' = Some(ErrNotInitialized)
              /\ UNCHANGED <<proofData, isFetching, instagramUrl, username, isVerifying,
                             verificationProof, reclaimProofRequest, fetches, inits,
                             attempts>>]_vars

C8_Witness ==
    /\ verificationError = Some(ErrNotInitialized)
    /\ reclaimProofRequest = Null
    /\ OpenPopups = {}

\* C9: at most one popup opened by startVerification is open at a time.
C9_OneLivePopup == Cardinality(OpenPopups) <= 1

\* C10: while a handle is stored and the Verify Ownership button is enabled,
\* the media_code of the handle is the media code of the current URL input.
C10_HandleBoundToCurrentUrl ==
    (reclaimProofRequest # Null /\ CanVerify) =>
        extractMediaCode(instagramUrl) = Some(Val(reclaimProofRequest).media_code)

----------------------------------------------------------------------------
\* C11: a step in which the effect calls initializeReclaimProofRequest for a
\* URL input that carries no media code sets the no-media-code error,
\* suspends no initialization, and leaves the Verify Ownership button
\* unable to start a verification, whatever handle an earlier
\* initialization stored.
InitWithoutMediaCode ==
    /\ EffectCalls(username', instagramUrl')
    /\ extractMediaCode(instagramUrl') = Null

C11_NoCodeNotReady ==
    [][InitWithoutMediaCode =>
          /\ verificationError' = Some(ErrNoMediaCode)
          /\ inits' = inits
          /\ ~CanVerify']_vars

\* C12: a click on "Verify Another Post" leaves the handle, the proof set,
\* the error, the proof artifact, the username and the URL input at their
\* initial values, neither flag set, and the flow UNINITIALIZED.
C12_ResetRestoresInitial ==
    [][ClickReset =>
          /\ reclaimProofRequest' = Null
          /\ verificationProof' = Null
          /\ verificationError' = Null
          /\ proofData' = Null
          /\ username' = Null
          /\ instagramUrl' = EmptyUrl
          /\ ~isFetching'
          /\ ~isVerifying'
          /\ FlowState' = "UNINITIALIZED"]_vars

\* C13: the completion of a fetch or of an initialization that began before
\* a resetAll changes none of the proof artifact, the username, the handle,
\* the proof set and the error.
StaleCompletion ==
    \/ \E i \in 1..Len(fetches) :
          /\ fetches[i].stale
          /\ \/ \E r \in SignOutcomes : SignReturns(i, r)
             \/ ZkFetchRejects(i)
             \/ \E name \in FetchedNames : ZkFetchResolves(i, name)
    \/ \E k \in 1..Len(inits) :
          /\ inits[k].stale
          /\ \E r \in InitOutcomes : InitReturnsTracked(k, r)

C13_ResetDiscardsLateResults ==
    [][StaleCompletion =>
          UNCHANGED <<proofData, username, reclaimProofRequest, verificationProof,
                      verificationError>>]_vars

\* C14: when zkFetch rejects, the username is null, the fetching flag is
\* false, the stored proof artifact is the one from before the attempt, no
\* initialization is started, and Get Post Owner is enabled again for any
\* non-empty URL input.
C14_ZkFetchRejectionLeavesNothing ==
    [][\A i \in 1..MaxFetches :
          ZkFetchRejects(i) =>
              /\ username' = Null
              /\ ~isFetching'
              /\ proofData' = proofData
              /\ inits' = inits
              /\ reclaimProofRequest' = reclaimProofRequest
              /\ (instagramUrl' # EmptyUrl => CanGetPostOwner')]_vars

\* a failed attempt after a successful one: the earlier artifact is still
\* stored, the username is null and Get Post Owner is enabled
C14_Witness ==
    /\ proofData = Some([username |-> Some("alice")])
    /\ username = Null
    /\ fetches = << >>
    /\ CanGetPostOwner

\* C15: when token acquisition fails (the request rejects, or the endpoint
\* answers 500 without a token), the attempt ends there: the fetching flag
\* is false, the username is null and no invocation is suspended at zkFetch
\* without a token.
TokenFailures == {"rejected", "noTokenClientThrows", "noTokenClientBuilt"}

C15_TokenFailureEndsAttempt ==
    [][\A i \in 1..MaxFetches : \A r \in TokenFailures :
          SignReturns(i, r) =>
              /\ ~isFetching'
              /\ username' = Null
              /\ \A j \in 1..Len(fetches') :
                    ~(fetches'[j].pc = "zkFetch" /\ fetches'[j].token = Null)]_vars

\* C16: when zkFetch resolves with data in which the username pattern did
\* not match, the artifact is stored, the username stays null, the fetching
\* flag is false, no initialization is started, the handle is untouched and
\* Verify Ownership cannot start a verification.
C16_NoUsernameNoInit ==
    [][\A i \in 1..MaxFetches :
          ZkFetchResolves(i, Null) =>
              /\ proofData' = Some([username |-> Null])
              /\ username' = Null
              /\ ~isFetching'
              /\ inits' = inits
              /\ reclaimProofRequest' = reclaimProofRequest
              /\ ~CanVerify']_vars

C16_Witness ==
    /\ proofData = Some([username |-> Null])
    /\ username = Null
    /\ ~isFetching
    /\ reclaimProofRequest # Null
    /\ verificationProof = Null
    /\ ~isVerifying

\* C17: with Get Post Owner disabled while the fetching flag is set, at most
\* one generateProof invocation is in flight, and the fetching flag is set
\* exactly while one is.
C17_FetchesSerialized ==
    /\ Len(fetches) <= 1
    /\ isFetching <=> Len(fetches) = 1

C17_Witness ==
    /\ isFetching
    /\ Len(fetches) = 1
    /\ fetches[1].pc = "zkFetch"

\* C18: every failure of a remote collaborator (token acquisition, zkFetch,
\* ReclaimProofRequest.init, getRequestUrl, the onError callback) leaves a
\* message in the error slot and neither the fetching nor the verifying
\* flag set.
RemoteFailure ==
    \/ \E i \in 1..MaxFetches : SignReturns(i, "rejected")
    \/ \E i \in 1..MaxFetches : ZkFetchRejects(i)
    \/ \E k \in 1..MaxInits : InitReturns(k, "rejected")
    \/ \E a \in 1..MaxAttempts, nav \in {"ok", "throws"} :
           RequestUrlReturns(a, "rejected", nav)
    \/ \E a \in 1..MaxAttempts, m \in CallbackMessages : SessionFails(a, m)

C18_RemoteErrorsRecorded ==
    [][RemoteFailure =>
          /\ verificationError' # Null
          /\ ~isFetching'
          /\ ~isVerifying']_vars

----------------------------------------------------------------------------
\* extractPostData, applied on its own to a sequence of proofs

\* JavaScript values.  A string carries what JSON.parse makes of it: Null
\* when JSON.parse throws, Some(value) when it returns value.
Undefined == [t |-> "undefined"]
JsNull == [t |-> "null"]
Num(n) == [t |-> "number", v |-> n]
Str(s) == [t |-> "string", v |-> s, parse |-> Null]
JsonText(s, value) == [t |-> "string", v |-> s, parse |-> Some(value)]
Obj(f) == [t |-> "object", f |-> f]
Arr(items) == [t |-> "array", items |-> items]

Truthy(v) ==
    CASE v.t \in {"undefined", "null"} -> FALSE
      [] v.t = "number" -> v.v # 0
      [] v.t = "string" -> v.v # ""
      [] OTHER -> TRUE

\* a || b
Or(a, b) == IF Truthy(a) THEN a ELSE b

\* v.key on a value that is not null or undefined, and v?.key on any value
Get(v, key) ==
    IF v.t = "object" /\ key \in DOMAIN v.f THEN v.f[key] ELSE Undefined

\* v?.[0]
First(v) ==
    IF v.t = "array" /\ Len(v.items) > 0 THEN v.items[1] ELSE Undefined

\* JSON.parse(v): Null when it throws
JSONparse(v) ==
    CASE v.t = "string" -> v.parse
      [] v.t = "number" -> Some(v)
      [] OTHER -> Null

\* the accumulator before the first proof
EmptyPostData ==
    [username |-> JsNull, caption |-> JsNull, image |-> JsNull, video |-> JsNull,
     likes |-> Num(0), comments |-> Num(0), mediaCode |-> JsNull]

\* if (proof.publicData) { ... }
MergePublicData(acc, proof) ==
    IF Truthy(proof.publicData)
    THEN [acc EXCEPT !.caption = Or(Get(proof.publicData, "caption"), @),
                     !.image = Or(Get(proof.publicData, "image"), @),
                     !.video = Or(Get(proof.publicData, "video"), @)]
    ELSE acc

\* the context of the proof, parsed when it is a string: Null when
\* JSON.parse throws
Context(proof) ==
    LET context == Get(proof.claimData, "context") IN
    IF context.t = "string" THEN JSONparse(context) ELSE Some(context)

\* the block for one count: skipped when the parameter is falsy; when
\* JSON.parse throws the empty catch leaves the field as it was; otherwise
\* the field is data?.value?.results?.[0]?.total_value || 0
Count(text, old) ==
    IF ~Truthy(text) THEN old
    ELSE LET data == JSONparse(text) IN
         IF data = Null THEN old
         ELSE Or(Get(First(Get(Get(Val(data), "value"), "results")), "total_value"),
                 Num(0))

\* the try block of one proof; a context that does not parse is caught and
\* logged before any field is assigned
MergeParams(acc, proof) ==
    LET context == Context(proof) IN
    IF context = Null THEN acc
    ELSE LET params == Get(Val(context), "extractedParameters") IN
         IF ~Truthy(params) THEN acc
         ELSE [acc EXCEPT !.username = Or(Get(params, "username"), @),
                          !.mediaCode = Or(Get(params, "media_code"), @),
                          !.likes = Count(Get(params, "like_count"), @),
                          !.comments = Count(Get(params, "comment_count"), @)]

RECURSIVE Merge(_, _)
Merge(acc, ps) ==
    IF ps = << >> THEN acc
    ELSE Merge(MergeParams(MergePublicData(acc, Head(ps)), Head(ps)), Tail(ps))

\* null for no proofs, else the accumulator after the last proof
extractPostData(ps) ==
    IF Len(ps) = 0 THEN Null ELSE Some(Merge(EmptyPostData, ps))

\* the proofs handed to extractPostData
MaxProofs == 2

\* the text of a count with total_value n
CountJson(s, n) ==
    JsonText(s, Obj([value |-> Obj([results |-> Arr(<<Obj([total_value |-> Num(n)])>>)])]))

Likes42 == CountJson("{\"value\":{\"results\":[{\"total_value\":42}]}}", 42)
Likes7 == CountJson("{\"value\":{\"results\":[{\"total_value\":7}]}}", 7)
Comments3 == CountJson("{\"value\":{\"results\":[{\"total_value\":3}]}}", 3)
Comments5 == CountJson("{\"value\":{\"results\":[{\"total_value\":5}]}}", 5)
NotJson == Str("not-json")
\* texts of the nesting whose total_value is a negative number, a string
LikesNegative ==
    JsonText("{\"value\":{\"results\":[{\"total_value\":-5}]}}",
             Obj([value |-> Obj([results |-> Arr(<<Obj([total_value |-> Num(-5)])>>)])]))
CommentsString ==
    JsonText("{\"value\":{\"results\":[{\"total_value\":\"12\"}]}}",
             Obj([value |-> Obj([results |-> Arr(<<Obj([total_value |-> Str("12")])>>)])]))
NoResults == JsonText("{\"value\":1}", Obj([value |-> Num(1)]))
JsonNull == JsonText("null", JsNull)

Proof(publicData, context) ==
    [publicData |-> publicData, claimData |-> Obj([context |-> context])]

ProofChoices ==
    << \* public fields only
       Proof(Obj([caption |-> Str("a"), image |-> Str("a.jpg")]), Undefined),
       Proof(Obj([caption |-> Str("b"), video |-> Str("b.mp4")]), Undefined),
       \* parameters in a context that is a JSON string
       Proof(Undefined,
             JsonText("{\"extractedParameters\":{...}}",
                      Obj([extractedParameters |->
                             Obj([username |-> Str("alice"), media_code |-> Str("A1"),
                                  like_count |-> Likes42,
                                  comment_count |-> Comments3])]))),
       \* parameters in a context that is an object
       Proof(Undefined,
             Obj([extractedParameters |->
                    Obj([username |-> Str("bob"), media_code |-> Str("B_2"),
                         like_count |-> Likes7, comment_count |-> NotJson])])),
       \* a like count that is not JSON
       Proof(Undefined,
             Obj([extractedParameters |->
                    Obj([like_count |-> NotJson, comment_count |-> Comments5])])),
       \* counts that are JSON without the nesting
       Proof(Undefined,
             Obj([extractedParameters |->
                    Obj([like_count |-> NoResults, comment_count |-> JsonNull])])),
       \* a total_value that is no count
       Proof(Undefined,
             Obj([extractedParameters |->
                    Obj([like_count |-> LikesNegative,
                         comment_count |-> CommentsString])])),
       \* an empty caption and a context that is not JSON
       Proof(Obj([caption |-> Str("")]), Str("oops")) >>

ProofSeqs ==
    UNION {{[k \in 1..n |-> ProofChoices[idx[k]]] : idx \in [1..n -> DOMAIN ProofChoices]} :
              n \in 0..MaxProofs}

InitExtract ==
    /\ AppInit
    /\ proofs \in ProofSeqs
    /\ postData = Null
    /\ UrlIdle

\* const postData = extractPostData(proofs)
ApplyExtractPostData ==
    /\ postData = Null
    /\ postData' = Some(extractPostData(proofs))
    /\ UNCHANGED <<appVars, proofs, urlVars>>

NextExtract == ApplyExtractPostData

SpecExtract == InitExtract /\ [][NextExtract]_vars

\* extractPostData returned a record
Extracted == postData # Null /\ Val(postData) # Null

\* C19: each of caption, image, video, username and mediaCode of the record
\* is the value of the first proof, in sequence order, that carries a
\* truthy value for it (null when none does).
MergedFields == {"caption", "image", "video", "username", "mediaCode"}

\* what proof p carries for field f
Carried(p, f) ==
    IF f \in {"caption", "image", "video"}
    THEN IF Truthy(p.publicData) THEN Get(p.publicData, f) ELSE Undefined
    ELSE LET context == Context(p) IN
         IF context = Null THEN Undefined
         ELSE Get(Get(Val(context), "extractedParameters"),
                  IF f = "mediaCode" THEN "media_code" ELSE f)

FirstNonEmpty(ps, f) ==
    LET carriers == {k \in 1..Len(ps) : Truthy(Carried(ps[k], f))} IN
    IF carriers = {} THEN JsNull
    ELSE Carried(ps[CHOOSE k \in carriers : \A j \in carriers : k <= j], f)

C19_FirstNonEmptyWins ==
    Extracted =>
        \A f \in MergedFields : Val(Val(postData))[f] = FirstNonEmpty(proofs, f)

\* C20: after each proof that carries a like_count (comment_count), likes
\* (comments) is the total_value N of its nesting when the text is JSON of
\* that shape, and 0 when the text is not JSON or lacks the nesting.
PostDataAfter(k) ==
    IF k = Len(proofs) THEN Val(Val(postData))
    ELSE Val(extractPostData(SubSeq(proofs, 1, k)))

CountText(p, c) ==
    LET context == Context(p) IN
    IF context = Null THEN Undefined
    ELSE Get(Get(Val(context), "extractedParameters"), c)

Decoded(text) ==
    LET data == JSONparse(text) IN
    IF data = Null THEN Num(0)
    ELSE LET n == Get(First(Get(Get(Val(data), "value"), "results")), "total_value") IN
         IF n.t \in {"undefined", "null"} THEN Num(0) ELSE n

C20_CountsDecodedIndependently ==
    Extracted =>
        \A k \in 1..Len(proofs) :
            /\ Truthy(CountText(proofs[k], "like_count")) =>
                   PostDataAfter(k).likes = Decoded(CountText(proofs[k], "like_count"))
            /\ Truthy(CountText(proofs[k], "comment_count")) =>
                   PostDataAfter(k).comments =
                       Decoded(CountText(proofs[k], "comment_count"))

\* C21: likes and comments of the record extractPostData returns are
\* integers greater than or equal to 0.
IsCount(v) == v.t = "number" /\ v.v >= 0

C21_CountsAreNaturals ==
    Extracted =>
        /\ IsCount(Val(Val(postData)).likes)
        /\ IsCount(Val(Val(postData)).comments)

----------------------------------------------------------------------------
\* normalizeInstagramUrl and extractMediaCode, applied on their own to a URL

\* the URLs are concatenations of at most MaxPieces pieces, and the examples
\* of the comments on the two functions
MaxPieces == 4

UrlPieces ==
    << <<" ">>, Slash, EmbedLit, HostLit, PLit, ReelLit, <<"A", "_", "1", "-">> >>

RECURSIVE Concat(_)
Concat(ss) == IF ss = << >> THEN << >> ELSE Head(ss) \o Concat(Tail(ss))

Https == <<"h", "t", "t", "p", "s", ":", "/", "/">>
ABC123 == <<"A", "B", "C", "1", "2", "3">>
XYZ789 == <<"X", "Y", "Z", "7", "8", "9">>
ExamplePost == Https \o HostLit \o PLit \o ABC123 \o Slash
ExampleReel == Https \o HostLit \o ReelLit \o XYZ789
ExampleNoSlash == Https \o HostLit \o PLit \o ABC123

UrlInputs ==
    {ExamplePost, ExampleReel, ExampleNoSlash} \cup
    UNION {{Concat([k \in 1..n |-> UrlPieces[idx[k]]]) : idx \in [1..n -> DOMAIN UrlPieces]} :
              n \in 0..MaxPieces}

InitUrl ==
    /\ AppInit
    /\ proofs = << >>
    /\ postData = Null
    /\ rawUrl \in UrlInputs
    /\ normalizedUrl = Null
    /\ normalizedTwice = Null
    /\ matchedCode = Null

\* const url = normalizeInstagramUrl(instagramUrl)
ApplyNormalize ==
    /\ normalizedUrl = Null
    /\ normalizedUrl' = Some(normalizeInstagramUrl(rawUrl))
    /\ UNCHANGED <<appVars, proofs, postData, rawUrl, normalizedTwice, matchedCode>>

\* normalizeInstagramUrl applied to its own result
ApplyNormalizeAgain ==
    /\ normalizedUrl # Null
    /\ normalizedTwice = Null
    /\ normalizedTwice' = Some(normalizeInstagramUrl(Val(normalizedUrl)))
    /\ UNCHANGED <<appVars, proofs, postData, rawUrl, normalizedUrl, matchedCode>>

\* const mediaCode = extractMediaCode(instagramUrl)
ApplyExtractMediaCode ==
    /\ matchedCode = Null
    /\ matchedCode' = Some(extractMediaCode(rawUrl))
    /\ UNCHANGED <<appVars, proofs, postData, rawUrl, normalizedUrl, normalizedTwice>>

NextUrl ==
    \/ ApplyNormalize
    \/ ApplyNormalizeAgain
    \/ ApplyExtractMediaCode

SpecUrl == InitUrl /\ [][NextUrl]_vars

\* C22: the result of normalizeInstagramUrl ends in "/embed/", and
\* normalizing the result again returns the same string.
C22_NormalizeIdempotent ==
    /\ normalizedUrl # Null => EndsWith(Val(normalizedUrl), EmbedLit \o Slash)
    /\ normalizedTwice # Null => Val(normalizedTwice) = Val(normalizedUrl)

\* C23: when extractMediaCode returns a token, the URL holds
\* "instagram.com/p/" or "instagram.com/reel/" followed by that token, the
\* token is a non-empty run of letters, digits, "_" and "-" that ends at the
\* end of the URL or before another character, and no such prefix occurs
\* earlier in the URL; it returns null exactly when no such prefix is
\* followed by a character of the run, and so for every URL that has
\* neither "/p/" nor "/reel/"; the two URLs of its comment give ABC123 and
\* XYZ789.
SegmentLits == {HostLit \o PLit, HostLit \o ReelLit}

\* the pairs <<i, g>> such that a segment starts at index i of s and a
\* token starts right after it, at index g
Tokens(s) ==
    UNION {{<<i, i + Len(lit)>> : i \in {j \in 1..Len(s) :
                                            /\ HasAt(s, lit, j)
                                            /\ j + Len(lit) <= Len(s)
                                            /\ s[j + Len(lit)] \in CodeChars}} :
              lit \in SegmentLits}

HasSegment(s) == Includes(s, Slash \o PLit) \/ Includes(s, Slash \o ReelLit)

C23_MediaCodeOfUrl ==
    matchedCode # Null =>
        LET code == Val(matchedCode)
            tokens == Tokens(rawUrl)
        IN /\ (code = Null) <=> (tokens = {})
           /\ ~HasSegment(rawUrl) => code = Null
           /\ code # Null =>
                 \E t \in tokens :
                     /\ \A u \in tokens : t[1] <= u[1]
                     /\ HasAt(rawUrl, Val(code), t[2])
                     /\ Len(Val(code)) >= 1
                     /\ \A k \in 1..Len(Val(code)) : Val(code)[k] \in CodeChars
                     /\ LET after == t[2] + Len(Val(code)) IN
                        after <= Len(rawUrl) => rawUrl[after] \notin CodeChars
           /\ rawUrl = ExamplePost => code = Some(ABC123)
           /\ rawUrl = ExampleReel => code = Some(XYZ789)

\* the token of the reel URL of the comment was extracted
C23_Witness ==
    /\ rawUrl = ExampleReel
    /\ matchedCode = Some(Some(XYZ789))

----------------------------------------------------------------------------
\* C25: in no state is a proof set stored while the error slot holds a
\* message.
C25_NeverProofAndError ==
    ~(verificationProof # Null /\ verificationError # Null)

\* C26: while a non-empty proof set is stored (the verified embed is
\* rendered), a username is fetched and every proof of the set comes from a
\* session whose media_code is the media code of the current URL input.
C26_ProofBoundToCurrentPost ==
    CanReset =>
        /\ username # Null
        /\ \A k \in 1..Len(Val(verificationProof)) :
              extractMediaCode(instagramUrl) = Some(Val(verificationProof)[k].media_code)

\* C27: when the last of several overlapping initializations completes, the
\* handle stored is that of the one called last: an initialization that
\* resolves after one called later has stored its handle, with none
\* pending any more and no resetAll in between, leaves that handle stored.
C27_LatestInitWins ==
    [][\A k \in 1..MaxInits :
          (/\ InitReturnsTracked(k, "resolved")
           /\ Len(inits) = 1
           /\ inits[k].overtaken
           /\ ~inits[k].stale) =>
              reclaimProofRequest' = reclaimProofRequest]_vars

----------------------------------------------------------------------------
\* C24: once the user has stopped with a fetch in flight for a URL input
\* that carries a media code, either the fetch ends without a username or
\* the flow becomes READY: a handle for that media code is stored and
\* Verify Ownership can start a verification.
FetchInFlight ==
    /\ userIdle
    /\ fetches # << >>
    /\ extractMediaCode(instagramUrl) # Null

EndsWithoutUsername == fetches = << >> /\ username = Null

Ready ==
    /\ extractMediaCode(instagramUrl) # Null
    /\ reclaimProofRequest = Some([media_code |-> Val(extractMediaCode(instagramUrl))])
    /\ CanVerify

C24_UsernameLeadsToReady == FetchInFlight ~> (EndsWithoutUsername \/ Ready)

====
